---- MODULE Spec2Model ----
(***************************************************************************)
(* Model of src/main.py: the transport (RobloxAPI.req, roli_get) and its   *)
(* sessions, the cursor-following collector (RobloxAPI.get_collectibles),  *)
(* the valuation merge of compose_limiteds_text, the catalog cache         *)
(* (roli_get_items), the username resolver, the handlers as sequences of   *)
(* client calls, the client methods, and the wrapper of track_command with *)
(* the usage counters and the language of a user.                          *)
(*                                                                         *)
(* Python values that may be None are tagged records:                      *)
(*   [t |-> "None"], [t |-> "int", n |-> 3], [t |-> "str", s |-> "c2"],    *)
(*   [t |-> "list", l |-> <<...>>], [t |-> "dict", d |-> [k |-> v]].       *)
(* The contents of a dict are a TLA+ function from keys to values.         *)
(***************************************************************************)
EXTENDS Integers, Sequences, FiniteSets, TLC

VARIABLES
    session,        \* roblox.session: "None" | "open" | "closed"
    ROLI_SESSION,   \* module-level ROLI_SESSION: "None" | "open" | "closed"
    call,           \* the last transport call: api, response, outcome
    pages,          \* the inventory endpoint: the pages it serves
    gc_pc,          \* get_collectibles: position
    gc_items,       \* get_collectibles: local `items`
    gc_cursor,      \* get_collectibles: local `cursor`
    gc_result,      \* get_collectibles: what the call ended in
    reqLog,         \* the query parameters of the requests issued, in order
    gc_tick,        \* the number of requests issued, modulo 2
    ROLI_ITEMS_CACHE,   \* module-level ROLI_ITEMS_CACHE: None or a dict
    cl_pc,          \* compose_limiteds_text: position
    cl_uid,         \* compose_limiteds_text: argument `uid`
    cl_lang,        \* compose_limiteds_text: argument `lang`
    cl_name,        \* compose_limiteds_text: local `name`
    cl_items,       \* compose_limiteds_text: local `items`
    roli_items,     \* compose_limiteds_text: local `roli_items`
    roli_err,       \* compose_limiteds_text: local `roli_err`
    total_rap,      \* compose_limiteds_text: local `total_rap`
    total_value,    \* compose_limiteds_text: local `total_value`
    lines,          \* compose_limiteds_text: local `lines`
    cl_result,      \* compose_limiteds_text: what the call ended in
    rgi_pc,         \* roli_get_items, per task: position
    rgi_resp,       \* roli_get_items, per task: the response of its fetch
    rgi_ret,        \* roli_get_items, per task: what its last call ended in
    fetches,        \* the catalog requests issued so far
    overlapped,     \* a call has started while another was in flight
    first,          \* what the first fetch that completed ended in
    directory,      \* the user directory: lookup and id-detail answers
    rs_pc,          \* get_user_details_by_username: position
    rs_name,        \* get_user_details_by_username: argument `username`
    rs_base,        \* get_user_details_by_username: local `base`
    rs_log,         \* the requests the resolver has issued, in order
    rs_result,      \* get_user_details_by_username: what the call ended in
    f_op,           \* the handler that is running
    f_pc,           \* the handler: position
    f_user,         \* the handler: the identity it resolved
    f_log,          \* the client calls the handler has made, in order
    f_errors,       \* the calls whose transport raised
    f_fields,       \* the enrichment fields of the result
    f_result,       \* the handler: what it ended in
    m_call,         \* the last client method call: method, response, result
    live,           \* the sessions constructed and not closed, per holder
    TOTAL_COMMANDS, \* module-level TOTAL_COMMANDS
    CHAT_IDS,       \* module-level CHAT_IDS
    USER_IDS,       \* module-level USER_IDS
    USER_LANG,      \* module-level USER_LANG: user id -> "en" | "ru"
    tc_seen,        \* the wrapper invocations so far: number, chats, senders
    tc_last,        \* the last handler invocation and what it ended in
    explicit        \* user id -> the language the user chose last

transportVars == <<session, ROLI_SESSION, call, live>>
collectVars == <<pages, gc_pc, gc_items, gc_cursor, gc_result, reqLog, gc_tick>>
limitedsVars == <<ROLI_ITEMS_CACHE, cl_pc, cl_uid, cl_lang, cl_name, cl_items,
                  roli_items, roli_err, total_rap, total_value, lines,
                  cl_result>>
cacheVars == <<rgi_pc, rgi_resp, rgi_ret, fetches, overlapped, first>>
resolverVars == <<directory, rs_pc, rs_name, rs_base, rs_log, rs_result>>
facadeVars == <<f_op, f_pc, f_user, f_log, f_errors, f_fields, f_result>>
clientVars == <<m_call>>
trackVars == <<TOTAL_COMMANDS, CHAT_IDS, USER_IDS, USER_LANG, tc_seen, tc_last,
               explicit>>
vars == <<session, ROLI_SESSION, call, pages, gc_pc, gc_items, gc_cursor,
          gc_result, reqLog, gc_tick, ROLI_ITEMS_CACHE, cl_pc, cl_uid, cl_lang,
          cl_name, cl_items, roli_items, roli_err, total_rap, total_value,
          lines, cl_result, rgi_pc, rgi_resp, rgi_ret, fetches, overlapped,
          first, directory, rs_pc, rs_name, rs_base, rs_log, rs_result, f_op,
          f_pc, f_user, f_log, f_errors, f_fields, f_result, m_call, live,
          TOTAL_COMMANDS, CHAT_IDS, USER_IDS, USER_LANG, tc_seen, tc_last,
          explicit>>

----------------------------------------------------------------------------
(* Python values *)

PyNone == [t |-> "None"]
PyInt(n) == [t |-> "int", n |-> n]
PyStr(s) == [t |-> "str", s |-> s]
PyList(l) == [t |-> "list", l |-> l]
PyDict(d) == [t |-> "dict", d |-> d]

\* bool(v): None, 0, "", [] and {} are false
Truthy(v) ==
    CASE v.t = "None" -> FALSE
      [] v.t = "int" -> v.n # 0
      [] v.t = "str" -> v.s # ""
      [] v.t = "list" -> Len(v.l) > 0
      [] v.t = "dict" -> DOMAIN v.d # {}

\* d.get(k, default) on the contents of a dict
Get(d, k, default) == IF k \in DOMAIN d THEN d[k] ELSE default

----------------------------------------------------------------------------
(* Responses of the upstream services *)

\* A response body is a JSON document (kind "json", denoting `value`), text
\* that is no JSON, or empty.
JsonBody(v) == [kind |-> "json", value |-> v]
TextBody(s) == [kind |-> "text", text |-> s]
EmptyBody == [kind |-> "empty"]

Response(status, body) == [net |-> "response", status |-> status, body |-> body]
Timeout == [net |-> "timeout"]
\* no request is issued
NoRequest == [net |-> "none"]

\* r.json(content_type=None): an empty body gives None, text that is no JSON
\* raises
json(body) ==
    CASE body.kind = "json" -> [raised |-> FALSE, value |-> body.value]
      [] body.kind = "empty" -> [raised |-> FALSE, value |-> PyNone]
      [] body.kind = "text" -> [raised |-> TRUE, value |-> PyNone]

\* try: data = await r.json(content_type=None) / except Exception: data = None
ParsedOrNone(body) == IF json(body).raised THEN PyNone ELSE json(body).value

Return(v) == [kind |-> "return", value |-> v]
\* raise RuntimeError(f"<prefix> {r.status}: {data}")
RaiseHTTP(prefix, status, data) ==
    [kind |-> "raise", exc |-> "RuntimeError", prefix |-> prefix,
     status |-> status, data |-> data]
RaiseTimeout == [kind |-> "raise", exc |-> "TimeoutError"]

\* RobloxAPI.req, after ensure(): the outcome for a response
req(r) ==
    IF r.net = "timeout" THEN RaiseTimeout
    ELSE LET data == ParsedOrNone(r.body) IN
         IF r.status = 404 THEN Return(PyNone)
         ELSE IF r.status >= 400 THEN RaiseHTTP("HTTP", r.status, data)
         ELSE Return(data)

\* roli_get, after roli_ensure(): the outcome for a response
roli_get(r) ==
    IF r.net = "timeout" THEN RaiseTimeout
    ELSE LET data == ParsedOrNone(r.body) IN
         IF r.status # 200 THEN RaiseHTTP("Rolimons HTTP", r.status, data)
         ELSE Return(data)

\* a test that asks for a new session on every request
NeedsSession_Always(s) == TRUE

\* if self.session is None or self.session.closed
NeedsSession(s) == s = "None" \/ s = "closed"

\* RobloxAPI.ensure / roli_ensure: a session is created when there is none or
\* the one there is is closed
ensure(s) == IF NeedsSession(s) THEN "open" ELSE s

\* no session constructed yet
NoSessions == [roblox |-> 0, roli |-> 0]

\* aiohttp.ClientSession(timeout=...) is constructed by `holder` when the test
\* of ensure holds for the session s it has
Made(l, holder, s) ==
    IF NeedsSession(s) THEN [l EXCEPT ![holder] = @ + 1] ELSE l

\* a transport that sends the request again after a server error
Requests_RetryOnError(r) ==
    IF r.net = "none" THEN 0
    ELSE IF r.net = "response" /\ r.status >= 500 THEN 2
    ELSE 1

\* the HTTP requests one transport call issues: `async with s.request(...)`
\* (`s.get(url)`) is entered once, with no loop around it
Requests(r) == IF r.net = "none" THEN 0 ELSE 1

\* the record of one transport call
TransportCall(api, r, out) ==
    [api |-> api, resp |-> r, outcome |-> out, requests |-> Requests(r)]

----------------------------------------------------------------------------
(* Inputs of the transport *)

Statuses == {200, 204, 400, 403, 404, 429, 500, 503}

ErrorDoc == PyDict([errors |-> <<"upstream">>])
UserDoc == PyDict([id |-> 42, name |-> "alice"])
EmptyDoc == PyDict(<<>>)

Bodies ==
    {EmptyBody, TextBody("<html>Bad Gateway</html>"), JsonBody(PyNone),
     JsonBody(EmptyDoc), JsonBody(ErrorDoc), JsonBody(UserDoc)}

Responses == {Response(s, b) : s \in Statuses, b \in Bodies} \cup {Timeout}

NoCall == [api |-> "none"]

\* One call of RobloxAPI.req
ReqCall ==
    \E r \in Responses :
        /\ session' = ensure(session)
        /\ live' = Made(live, "roblox", session)
        /\ call' = TransportCall("req", r, req(r))
        /\ UNCHANGED <<ROLI_SESSION>>
        /\ UNCHANGED collectVars
        /\ UNCHANGED limitedsVars
        /\ UNCHANGED <<cacheVars, resolverVars, facadeVars, clientVars, trackVars>>

\* One call of roli_get
RoliGetCall ==
    \E r \in Responses :
        /\ ROLI_SESSION' = ensure(ROLI_SESSION)
        /\ live' = Made(live, "roli", ROLI_SESSION)
        /\ call' = TransportCall("roli_get", r, roli_get(r))
        /\ UNCHANGED <<session>>
        /\ UNCHANGED collectVars
        /\ UNCHANGED limitedsVars
        /\ UNCHANGED <<cacheVars, resolverVars, facadeVars, clientVars, trackVars>>

CollectIdle ==
    /\ pages = <<>>
    /\ gc_pc = "idle"
    /\ gc_items = <<>>
    /\ gc_cursor = PyNone
    /\ gc_result = [kind |-> "none"]
    /\ reqLog = <<>>
    /\ gc_tick = 0

\* the module-level state after import, and no compose_limiteds_text call
LimitedsIdle ==
    /\ ROLI_ITEMS_CACHE = PyNone
    /\ cl_pc = "idle"
    /\ cl_uid = 0
    /\ cl_lang = "en"
    /\ cl_name = ""
    /\ cl_items = PyNone
    /\ roli_items = PyNone
    /\ roli_err = PyNone
    /\ total_rap = 0
    /\ total_value = 0
    /\ lines = <<>>
    /\ cl_result = [kind |-> "none"]

\* the coroutines that may call roli_get_items at the same time
Tasks == {1, 2}

\* no roli_get_items call yet
CacheIdle ==
    /\ rgi_pc = [t \in Tasks |-> "idle"]
    /\ rgi_resp = [t \in Tasks |-> NoRequest]
    /\ rgi_ret = [t \in Tasks |-> [kind |-> "none"]]
    /\ fetches = 0
    /\ overlapped = FALSE
    /\ first = [kind |-> "none"]

\* no get_user_details_by_username call yet
ResolverIdle ==
    /\ directory = [lookup |-> NoRequest, users |-> <<>>]
    /\ rs_pc = "idle"
    /\ rs_name = ""
    /\ rs_base = PyNone
    /\ rs_log = <<>>
    /\ rs_result = [kind |-> "none"]

\* no handler running
FacadeIdle ==
    /\ f_op = "none"
    /\ f_pc = "idle"
    /\ f_user = PyNone
    /\ f_log = <<>>
    /\ f_errors = {}
    /\ f_fields = {}
    /\ f_result = [kind |-> "none"]

\* no client method called yet
ClientIdle == m_call = NoCall

\* the module-level state after import, and no handler invoked
TrackIdle ==
    /\ TOTAL_COMMANDS = 0
    /\ CHAT_IDS = {}
    /\ USER_IDS = {}
    /\ USER_LANG = <<>>
    /\ tc_seen = [calls |-> 0, chats |-> {}, senders |-> {}]
    /\ tc_last = [handler |-> "none"]
    /\ explicit = <<>>

InitTransport ==
    /\ session = "None"
    /\ ROLI_SESSION = "None"
    /\ live = NoSessions
    /\ call = NoCall
    /\ CollectIdle
    /\ LimitedsIdle
    /\ CacheIdle
    /\ ResolverIdle
    /\ FacadeIdle
    /\ ClientIdle
    /\ TrackIdle

NextTransport == ReqCall \/ RoliGetCall

SpecTransport == InitTransport /\ [][NextTransport]_vars

----------------------------------------------------------------------------
(* Claims about the transport, checked under SpecTransport *)

Is404(c) == c.api # "none" /\ c.resp.net = "response" /\ c.resp.status = 404

\* C1: for every upstream endpoint, the valuation service reached through
\* roli_get included, a response with status 404 is returned to the caller as
\* Absent (None) and is never raised as an error.
C1_NotFoundIsAbsentEverywhere == Is404(call) => call.outcome = Return(PyNone)

\* What an error has to hold to carry the body of the response: the document
\* when the body is JSON, the text itself when it is not.
BodyContent(body) ==
    CASE body.kind = "json" -> body.value
      [] body.kind = "text" -> PyStr(body.text)
      [] body.kind = "empty" -> PyNone

IsErrorStatus(c) ==
    /\ c.api = "req"
    /\ c.resp.net = "response"
    /\ c.resp.status >= 400
    /\ c.resp.status # 404

\* C2: for every response whose status is >= 400 and not 404, RobloxAPI.req
\* ends in an error that carries the status code and the raw response body,
\* whether or not that body is valid JSON.
C2_ErrorCarriesStatusAndBody ==
    IsErrorStatus(call) =>
        /\ call.outcome.kind = "raise"
        /\ call.outcome.exc = "RuntimeError"
        /\ call.outcome.status = call.resp.status
        /\ call.outcome.data = BodyContent(call.resp.body)

----------------------------------------------------------------------------
(* The inventory endpoint and RobloxAPI.get_collectibles *)

MaxPages == 3                 \* pages the endpoint holds
PageSizes == {0, 1, 2}        \* records on one page
MaxItems == 2 * MaxPages      \* records the model lets `items` hold
MaxLog == MaxPages + 2        \* requests the log records

\* the opaque cursor that names page k
CursorOf(k) == "c" \o ToString(k)

\* record j of page k
RecordOf(k, j) == [assetId |-> 10 * k + j]
RecordsOf(k, n) == [j \in 1..n |-> RecordOf(k, j)]

\* the body of a well-formed page: {"data": [...], "nextPageCursor": ...}
PageDoc(records, next) ==
    PyDict([data |-> records, nextPageCursor |-> next])

\* the next cursor page k may carry: none, or the cursor of the next page, of
\* the same page again, or of the first page
CursorValues(k) == {PyNone} \cup {PyStr(CursorOf(j)) : j \in {1, k, k + 1}}

\* what page k of the endpoint may answer
PageResponses(k) ==
    {Response(200, JsonBody(PageDoc(RecordsOf(k, m), c))) :
        m \in PageSizes, c \in CursorValues(k)}
    \cup {Response(404, TextBody("Not Found")),
          Response(500, JsonBody(ErrorDoc)),
          Response(200, TextBody("<html>Bad Gateway</html>")),
          Response(200, EmptyBody)}

\* the query parameters of one request
Params(cursor) ==
    IF Truthy(cursor)
    THEN [limit |-> 100, sortOrder |-> "Asc", cursor |-> cursor.s]
    ELSE [limit |-> 100, sortOrder |-> "Asc"]

\* the endpoint: no cursor parameter gives the first page, cursor c the page
\* that c names, a cursor that names no page 400
Serve(ps, params) ==
    IF "cursor" \in DOMAIN params
    THEN IF \E k \in 1..Len(ps) : CursorOf(k) = params.cursor
         THEN ps[CHOOSE k \in 1..Len(ps) : CursorOf(k) = params.cursor]
         ELSE Response(400, JsonBody(ErrorDoc))
    ELSE ps[1]

\* reqLog.append, within the model's bound
Logged(log, params) == IF Len(log) < MaxLog THEN Append(log, params) ELSE log

\* items.extend(data.get("data", []))
Extended(items, data) == items \o Get(data.d, "data", <<>>)

\* a collector that reads the cursor under another key
NextCursor_WrongKey(data) == Get(data.d, "cursor", PyNone)

\* cursor = data.get("nextPageCursor")
NextCursor(data) == Get(data.d, "nextPageCursor", PyNone)

\* The inventory grows by a page (before the call the model follows).
PublishPage ==
    /\ gc_pc = "idle"
    /\ Len(pages) < MaxPages
    /\ \E r \in PageResponses(Len(pages) + 1) : pages' = Append(pages, r)
    /\ UNCHANGED <<gc_pc, gc_items, gc_cursor, gc_result, reqLog, gc_tick>>
    /\ UNCHANGED transportVars
    /\ UNCHANGED limitedsVars
    /\ UNCHANGED <<cacheVars, resolverVars, facadeVars, clientVars, trackVars>>

\* get_collectibles is called: items = [], cursor = None
GC_Call ==
    /\ gc_pc = "idle"
    /\ Len(pages) >= 1
    /\ gc_pc' = "loop"
    /\ gc_items' = <<>>
    /\ gc_cursor' = PyNone
    /\ UNCHANGED <<pages, gc_result, reqLog, gc_tick>>
    /\ UNCHANGED transportVars
    /\ UNCHANGED limitedsVars
    /\ UNCHANGED <<cacheVars, resolverVars, facadeVars, clientVars, trackVars>>

\* One pass of `while True`: one request and what the loop does with its
\* outcome. "overflow" stands for a run that outgrows MaxItems.
GC_Iteration ==
    /\ gc_pc = "loop"
    /\ LET params == Params(gc_cursor)
           r == Serve(pages, params)
           out == req(r)
       IN /\ session' = ensure(session)
          /\ live' = Made(live, "roblox", session)
          /\ call' = TransportCall("req", r, out)
          /\ reqLog' = Logged(reqLog, params)
          /\ gc_tick' = (gc_tick + 1) % 2
          /\ IF out.kind = "raise"
             THEN \* the exception leaves get_collectibles
                  /\ gc_pc' = "raised"
                  /\ gc_result' = out
                  /\ UNCHANGED <<gc_items, gc_cursor>>
             ELSE IF ~Truthy(out.value)
             THEN \* if not data: break
                  /\ gc_pc' = "done"
                  /\ gc_result' = Return(PyList(gc_items))
                  /\ UNCHANGED <<gc_items, gc_cursor>>
             ELSE IF Len(Extended(gc_items, out.value)) > MaxItems
             THEN /\ gc_pc' = "overflow"
                  /\ UNCHANGED <<gc_items, gc_cursor, gc_result>>
             ELSE /\ gc_items' = Extended(gc_items, out.value)
                  /\ gc_cursor' = NextCursor(out.value)
                  /\ IF ~Truthy(NextCursor(out.value))
                     THEN \* if not cursor: break
                          /\ gc_pc' = "done"
                          /\ gc_result' =
                                 Return(PyList(Extended(gc_items, out.value)))
                     ELSE /\ gc_pc' = "loop"
                          /\ UNCHANGED gc_result
    /\ UNCHANGED <<ROLI_SESSION, pages>>
    /\ UNCHANGED limitedsVars
    /\ UNCHANGED <<cacheVars, resolverVars, facadeVars, clientVars, trackVars>>

InitCollect ==
    /\ session = "None"
    /\ ROLI_SESSION = "None"
    /\ live = NoSessions
    /\ call = NoCall
    /\ CollectIdle
    /\ LimitedsIdle
    /\ CacheIdle
    /\ ResolverIdle
    /\ FacadeIdle
    /\ ClientIdle
    /\ TrackIdle

NextCollect == PublishPage \/ GC_Call \/ GC_Iteration

SpecCollect == InitCollect /\ [][NextCollect]_vars

\* the event loop resumes a coroutine whose request has been answered
FairSpecCollect == SpecCollect /\ WF_vars(GC_Iteration)

----------------------------------------------------------------------------
(* Claims about get_collectibles, checked under SpecCollect *)

\* a 200 response whose body is a page document
IsPage(r) ==
    /\ r.status = 200
    /\ r.body.kind = "json"
    /\ r.body.value.t = "dict"
    /\ {"data", "nextPageCursor"} \subseteq DOMAIN r.body.value.d

\* the endpoint serves its pages as one chain: page k names page k + 1, the
\* last page carries no cursor
IsChain(ps) ==
    \A k \in 1..Len(ps) :
        /\ IsPage(ps[k])
        /\ ps[k].body.value.d.nextPageCursor =
               IF k < Len(ps) THEN PyStr(CursorOf(k + 1)) ELSE PyNone

RECURSIVE Concatenation(_, _)
\* the records of pages 1..k, in page order
Concatenation(ps, k) ==
    IF k = 0 THEN <<>>
    ELSE Concatenation(ps, k - 1) \o ps[k].body.value.d.data

\* the parameters of request k over a chain
ChainParams(k) ==
    IF k = 1 THEN [limit |-> 100, sortOrder |-> "Asc"]
    ELSE [limit |-> 100, sortOrder |-> "Asc", cursor |-> CursorOf(k)]

\* C7: over an endpoint that serves N cursor-chained pages, get_collectibles
\* issues exactly N requests, the first with no cursor and each later one
\* with the cursor the previous page returned, and returns the concatenation
\* of the N pages' records in page order.
C7_ChainCollectedInOrder ==
    (IsChain(pages) /\ gc_pc # "idle") =>
        /\ gc_pc \in {"loop", "done"}
        /\ Len(reqLog) <= Len(pages)
        /\ \A i \in 1..Len(reqLog) : reqLog[i] = ChainParams(i)
        /\ gc_pc = "loop" => Len(reqLog) < Len(pages)
        /\ gc_pc = "done" =>
               /\ Len(reqLog) = Len(pages)
               /\ gc_result = Return(PyList(Concatenation(pages, Len(pages))))

\* a chain of three pages, with records, has been collected
C7_Witness ==
    /\ IsChain(pages)
    /\ Len(pages) = 3
    /\ gc_pc = "done"
    /\ Len(reqLog) = 3
    /\ Len(gc_result.value.l) >= 3

\* the request log holds every request of the call
LogComplete == Len(reqLog) < MaxLog

\* C8: when the fetch of a page after the first fails with an upstream error,
\* get_collectibles ends with a PartialFailure outcome that carries the
\* records of the pages collected before the failure.
C8_LaterFailureIsPartial ==
    (gc_pc = "raised" /\ Len(reqLog) >= 2) =>
        /\ gc_result.kind = "PartialFailure"
        /\ gc_result.records = gc_items

\* C9: get_collectibles returns a collection as complete only when the last
\* page it fetched carried no next cursor; when pagination stops with a
\* cursor pending (a 404, an empty or non-JSON body) the result is not an
\* ordinary complete list.
C9_CompleteOnlyAtEndOfChain ==
    (gc_pc = "done" /\ gc_result.kind = "return"
        /\ LogComplete /\ Len(reqLog) >= 2) =>
        LET last == Serve(pages, reqLog[Len(reqLog)]) IN
            /\ IsPage(last)
            /\ ~Truthy(last.body.value.d.nextPageCursor)

\* C10: a call of get_collectibles terminates for every upstream behaviour,
\* an endpoint that returns a next cursor on every page included. ("overflow"
\* is a run that left the bounds of the model, not one that goes on.)
C10_CollectionEnds ==
    (gc_pc = "loop") ~> (gc_pc \in {"done", "raised", "overflow"})

----------------------------------------------------------------------------
(* The valuation catalog and compose_limiteds_text *)

MaxHoldings == 2    \* collectibles of one inventory

AssetIds == {1, 2}
\* the ids compose_limiteds_text is called with: int(cb.data...) of
\* cb_roli_stats accepts a negative number
Uids == {42, -7}
Langs == {"en", "ru"}

\* recentAveragePrice of an item: null or a number >= 0 (or no such key)
RapValues == {PyNone, PyInt(0), PyInt(100), PyInt(300)}

\* the records of the inventory endpoint
Items ==
    {[assetId |-> a] : a \in AssetIds}
    \cup {[assetId |-> a, recentAveragePrice |-> r] :
             a \in AssetIds, r \in RapValues}

\* the value field of a catalog entry
CatalogValues ==
    {PyInt(-1), PyInt(0), PyInt(50), PyInt(150), PyStr("unknown")}

\* a catalog entry: [name, acronym, rap, value, ...]
Arr(v) == PyList(<<PyStr("Hat"), PyStr(""), PyInt(0), v>>)

\* the catalogs that hold an entry for the assets of S: str(assetId) -> entry
CatalogsOf(S) == [{ToString(a) : a \in S} -> {Arr(v) : v \in CatalogValues}]

\* a catalog response that holds no catalog
FailedCatalogResponses ==
    {Response(200, JsonBody(EmptyDoc)),
     Response(200, JsonBody(ErrorDoc)),
     Response(200, TextBody("<html>Bad Gateway</html>")),
     Response(404, TextBody("Not Found")),
     Response(500, JsonBody(ErrorDoc)),
     Timeout}

\* the response that holds catalog c: {"items": {...}}
CatalogResponse(c) == Response(200, JsonBody(PyDict([items |-> PyDict(c)])))

UserResponses ==
    {Response(200, JsonBody(UserDoc)),
     Response(404, JsonBody(ErrorDoc)),
     Response(500, JsonBody(ErrorDoc))}

\* what roblox.get_collectibles(uid) may end in, besides a list
FailedCollectibles == {RaiseHTTP("HTTP", 500, ErrorDoc), RaiseTimeout}

\* str(e): the message of the RuntimeError; the TimeoutError of an expired
\* ClientTimeout is raised without a message
StrOf(e) ==
    IF e.exc = "RuntimeError"
    THEN PyStr(e.prefix \o " " \o ToString(e.status))
    ELSE PyStr("")

\* roli_get_items with the catalog request answered by r: the outcome and
\* the cache it leaves
roli_get_items(cache, r) ==
    IF cache.t # "None" THEN [outcome |-> Return(cache), cache |-> cache]
    ELSE LET out == roli_get(r) IN
         IF out.kind = "raise" THEN [outcome |-> out, cache |-> cache]
         ELSE IF ~Truthy(out.value) \/ "items" \notin DOMAIN out.value.d
         THEN [outcome |-> Return(EmptyDoc), cache |-> EmptyDoc]
         ELSE [outcome |-> Return(out.value.d.items),
               cache |-> out.value.d.items]

\* rap = it.get("recentAveragePrice") or 0
Rap(it) ==
    LET v == Get(it, "recentAveragePrice", PyNone) IN
        IF Truthy(v) THEN v.n ELSE 0

NoValue == [raised |-> FALSE, value |-> PyNone]

\* a merge that takes every number the catalog holds, positive or not
CatalogValue_AnyNumber(aid, catalog) ==
    IF ~Truthy(catalog) THEN NoValue
    ELSE LET arr == Get(catalog.d, ToString(aid), PyNone) IN
         IF ~Truthy(arr) THEN NoValue
         ELSE LET roli_val == arr.l[4] IN
              IF roli_val.t = "int"
              THEN [raised |-> FALSE, value |-> roli_val]
              ELSE NoValue

\* a merge that tests the sign of the value only
CatalogValue_Nonzero(aid, catalog) ==
    IF ~Truthy(catalog) THEN NoValue
    ELSE LET arr == Get(catalog.d, ToString(aid), PyNone) IN
         IF ~Truthy(arr) THEN NoValue
         ELSE LET roli_val == arr.l[4] IN
              IF ~Truthy(roli_val) THEN NoValue
              ELSE IF roli_val.t # "int" THEN [raised |-> TRUE, value |-> PyNone]
              ELSE [raised |-> FALSE, value |-> roli_val]

\* value = None; if roli_items: arr = roli_items.get(str(aid)); if arr:
\* roli_val = arr[3]; if roli_val and roli_val > 0: value = roli_val.
\* `roli_val > 0` raises TypeError when roli_val is a non-empty string.
CatalogValue(aid, catalog) ==
    IF ~Truthy(catalog) THEN NoValue
    ELSE LET arr == Get(catalog.d, ToString(aid), PyNone) IN
         IF ~Truthy(arr) THEN NoValue
         ELSE LET roli_val == arr.l[4] IN
              IF ~Truthy(roli_val) THEN NoValue
              ELSE IF roli_val.t # "int" THEN [raised |-> TRUE, value |-> PyNone]
              ELSE IF roli_val.n > 0 THEN [raised |-> FALSE, value |-> roli_val]
              ELSE NoValue

\* a merge that falls back to 0
Fallback_Zero(value, rap) == IF value.t = "None" THEN 0 ELSE value.n

\* if value is None: value = rap
Fallback(value, rap) == IF value.t = "None" THEN rap ELSE value.n

\* a total that is overwritten, not added to
Add_Overwrite(total, n) == n

\* total_rap += rap, total_value += value
Add(total, n) == total + n

\* compose_limiteds_text(uid, lang) is called
CL_Call ==
    /\ cl_pc \in {"idle", "done", "raised"}
    /\ \E uid \in Uids, lang \in Langs :
           /\ cl_uid' = uid
           /\ cl_lang' = lang
    /\ cl_pc' = "get_user"
    /\ cl_name' = ""
    /\ cl_items' = PyNone
    /\ roli_items' = PyNone
    /\ roli_err' = PyNone
    /\ total_rap' = 0
    /\ total_value' = 0
    /\ lines' = <<>>
    /\ cl_result' = [kind |-> "none"]
    /\ UNCHANGED ROLI_ITEMS_CACHE
    /\ UNCHANGED transportVars
    /\ UNCHANGED collectVars
    /\ UNCHANGED <<cacheVars, resolverVars, facadeVars, clientVars, trackVars>>

\* user = await roblox.get_user_by_id(uid), up to name = ...
CL_GetUser ==
    /\ cl_pc = "get_user"
    /\ \E r \in UserResponses :
           LET out == req(r) IN
               /\ session' = ensure(session)
               /\ live' = Made(live, "roblox", session)
               /\ call' = TransportCall("req", r, out)
               /\ IF out.kind = "raise"
                  THEN /\ cl_pc' = "raised"
                       /\ cl_result' = out
                       /\ UNCHANGED cl_name
                  ELSE IF ~Truthy(out.value)
                  THEN /\ cl_pc' = "done"
                       /\ cl_result' =
                              Return([text |-> "User not found",
                                      lang |-> cl_lang])
                       /\ UNCHANGED cl_name
                  ELSE /\ cl_pc' = "get_collectibles"
                       /\ cl_name' =
                              Get(out.value.d, "name", ToString(cl_uid))
                       /\ UNCHANGED cl_result
    /\ UNCHANGED <<ROLI_SESSION, ROLI_ITEMS_CACHE, cl_uid, cl_lang, cl_items,
                   roli_items, roli_err, total_rap, total_value, lines>>
    /\ UNCHANGED collectVars
    /\ UNCHANGED <<cacheVars, resolverVars, facadeVars, clientVars, trackVars>>

\* the rest of CL_GetCollectibles, get_collectibles having ended in `out`
CL_GotCollectibles(out) ==
    /\ IF out.kind = "raise"
       THEN /\ cl_pc' = "raised"
            /\ cl_result' = out
            /\ UNCHANGED <<cl_items, roli_items>>
       ELSE IF ~Truthy(out.value)
       THEN /\ cl_pc' = "done"
            /\ cl_result' =
                   Return([text |-> "no collectibles", lang |-> cl_lang,
                           name |-> cl_name])
            /\ cl_items' = out.value
            /\ UNCHANGED roli_items
       ELSE /\ cl_pc' = "roli_get_items"
            /\ cl_items' = out.value
            /\ roli_items' = EmptyDoc
            /\ UNCHANGED cl_result
    /\ UNCHANGED <<ROLI_ITEMS_CACHE, cl_uid, cl_lang, cl_name, roli_err,
                   total_rap, total_value, lines>>
    /\ UNCHANGED transportVars
    /\ UNCHANGED collectVars
    /\ UNCHANGED <<cacheVars, resolverVars, facadeVars, clientVars, trackVars>>

\* items = await roblox.get_collectibles(uid), up to roli_items = {}
CL_GetCollectibles ==
    /\ cl_pc = "get_collectibles"
    /\ \/ \E n \in 0..MaxHoldings : \E l \in [1..n -> Items] :
              CL_GotCollectibles(Return(PyList(l)))
       \/ \E out \in FailedCollectibles : CL_GotCollectibles(out)

\* the rest of CL_RoliGetItems, the catalog request being answered by r
CL_GotRoliItems(r) ==
    LET g == roli_get_items(ROLI_ITEMS_CACHE, r) IN
        /\ ROLI_ITEMS_CACHE' = g.cache
        /\ IF ROLI_ITEMS_CACHE.t = "None"
           THEN /\ ROLI_SESSION' = ensure(ROLI_SESSION)
                /\ live' = Made(live, "roli", ROLI_SESSION)
                /\ call' = TransportCall("roli_get", r, roli_get(r))
           ELSE UNCHANGED <<ROLI_SESSION, call, live>>
        /\ IF g.outcome.kind = "raise"
           THEN /\ roli_err' = StrOf(g.outcome)
                /\ UNCHANGED roli_items
           ELSE /\ roli_items' = g.outcome.value
                /\ UNCHANGED roli_err
        /\ cl_pc' = "loop"
        /\ UNCHANGED <<session, cl_uid, cl_lang, cl_name, cl_items, total_rap,
                       total_value, lines, cl_result>>
        /\ UNCHANGED collectVars
        /\ UNCHANGED <<cacheVars, resolverVars, facadeVars, clientVars, trackVars>>

\* try: roli_items = await roli_get_items() / except: roli_err = str(e)
CL_RoliGetItems ==
    /\ cl_pc = "roli_get_items"
    /\ \/ /\ ROLI_ITEMS_CACHE.t # "None"
          /\ CL_GotRoliItems(NoRequest)
       \/ /\ ROLI_ITEMS_CACHE.t = "None"
          /\ \/ \E S \in SUBSET AssetIds : \E c \in CatalogsOf(S) :
                    CL_GotRoliItems(CatalogResponse(c))
             \/ \E r \in FailedCatalogResponses : CL_GotRoliItems(r)

\* one pass of `for it in items`
CL_LoopIteration ==
    /\ cl_pc = "loop"
    /\ Len(lines) < Len(cl_items.l)
    /\ LET it == cl_items.l[Len(lines) + 1]
           aid == Get(it, "assetId", 0)
           rap == Rap(it)
           cv == CatalogValue(aid, roli_items)
       IN IF cv.raised
          THEN /\ cl_pc' = "raised"
               /\ cl_result' = [kind |-> "raise", exc |-> "TypeError"]
               /\ total_rap' = Add(total_rap, rap)
               /\ UNCHANGED <<total_value, lines>>
          ELSE LET value == Fallback(cv.value, rap) IN
               /\ total_rap' = Add(total_rap, rap)
               /\ total_value' = Add(total_value, value)
               /\ lines' = Append(lines, [aid |-> aid, rap |-> rap,
                                          value |-> value])
               /\ UNCHANGED <<cl_pc, cl_result>>
    /\ UNCHANGED <<ROLI_ITEMS_CACHE, cl_uid, cl_lang, cl_name, cl_items,
                   roli_items, roli_err>>
    /\ UNCHANGED transportVars
    /\ UNCHANGED collectVars
    /\ UNCHANGED <<cacheVars, resolverVars, facadeVars, clientVars, trackVars>>

\* header = ...; return header + "\n" + "\n".join(lines)
CL_Return ==
    /\ cl_pc = "loop"
    /\ Len(lines) = Len(cl_items.l)
    /\ cl_pc' = "done"
    /\ cl_result' =
           Return([text |-> "limiteds", lang |-> cl_lang, name |-> cl_name,
                   count |-> Len(cl_items.l), total_rap |-> total_rap,
                   total_value |-> total_value, uid |-> cl_uid,
                   warning |-> IF Truthy(roli_err) THEN roli_err ELSE PyNone,
                   lines |-> lines])
    /\ UNCHANGED <<ROLI_ITEMS_CACHE, cl_uid, cl_lang, cl_name, cl_items,
                   roli_items, roli_err, total_rap, total_value, lines>>
    /\ UNCHANGED transportVars
    /\ UNCHANGED collectVars
    /\ UNCHANGED <<cacheVars, resolverVars, facadeVars, clientVars, trackVars>>

InitLimiteds ==
    /\ session = "None"
    /\ ROLI_SESSION = "None"
    /\ live = NoSessions
    /\ call = NoCall
    /\ CollectIdle
    /\ LimitedsIdle
    /\ CacheIdle
    /\ ResolverIdle
    /\ FacadeIdle
    /\ ClientIdle
    /\ TrackIdle

NextLimiteds ==
    \/ CL_Call
    \/ CL_GetUser
    \/ CL_GetCollectibles
    \/ CL_RoliGetItems
    \/ CL_LoopIteration
    \/ CL_Return

SpecLimiteds == InitLimiteds /\ [][NextLimiteds]_vars

----------------------------------------------------------------------------
(* Claims about the valuation merge, checked under SpecLimiteds *)

\* the catalog holds an entry for the item's assetId whose value is > 0
HasPositiveEntry(it, catalog) ==
    /\ catalog.t = "dict"
    /\ ToString(it.assetId) \in DOMAIN catalog.d
    /\ catalog.d[ToString(it.assetId)].l[4].t = "int"
    /\ catalog.d[ToString(it.assetId)].l[4].n > 0

\* the value of the item's entry
EntryValue(it, catalog) == catalog.d[ToString(it.assetId)].l[4].n

\* the item's recentAveragePrice, absent counted as 0
RapOf(it) ==
    IF "recentAveragePrice" \in DOMAIN it /\ it.recentAveragePrice.t = "int"
    THEN it.recentAveragePrice.n
    ELSE 0

\* the holdings the merge has reported so far: item i with its applied value
Holdings ==
    [i \in 1..Len(lines) |->
        [item |-> cl_items.l[i], appliedValue |-> lines[i].value]]

\* C3: the applied value of an item equals the catalog value when the
\* catalog has an entry for the item's assetId whose value is > 0, and the
\* item's recentAveragePrice in every other case.
C3_AppliedValuePolicy ==
    \A i \in DOMAIN Holdings :
        LET h == Holdings[i] IN
            h.appliedValue =
                IF HasPositiveEntry(h.item, roli_items)
                THEN EntryValue(h.item, roli_items)
                ELSE RapOf(h.item)

\* one holding valued by the catalog and one that fell back from an entry
\* of value 0
C3_Witness ==
    /\ cl_pc = "done"
    /\ \E i, j \in DOMAIN Holdings :
           /\ HasPositiveEntry(Holdings[i].item, roli_items)
           /\ Holdings[i].appliedValue # RapOf(Holdings[i].item)
           /\ ToString(Holdings[j].item.assetId) \in DOMAIN roli_items.d
           /\ ~HasPositiveEntry(Holdings[j].item, roli_items)
           /\ Holdings[j].appliedValue = 100

\* C4 as stated: the applied value reported for a holding is never lower
\* than the item's recentAveragePrice.
C4_NeverBelowRap ==
    \A i \in DOMAIN Holdings :
        Holdings[i].appliedValue >= RapOf(Holdings[i].item)

\* C4 as amended: the applied value is lower than the item's
\* recentAveragePrice only when it is the positive value the catalog holds
\* for the item.
C4_BelowRapOnlyByCatalog ==
    \A i \in DOMAIN Holdings :
        LET h == Holdings[i] IN
            h.appliedValue < RapOf(h.item) =>
                /\ HasPositiveEntry(h.item, roli_items)
                /\ h.appliedValue = EntryValue(h.item, roli_items)

\* a holding reported below its recentAveragePrice
C4_Witness ==
    /\ cl_pc = "done"
    /\ \E i \in DOMAIN Holdings :
           /\ Holdings[i].appliedValue = 50
           /\ RapOf(Holdings[i].item) = 100

\* C5: for an item whose recentAveragePrice is nonzero, the applied value
\* reported is nonzero, whatever the catalog holds.
C5_NonzeroRapNonzeroValue ==
    \A i \in DOMAIN Holdings :
        RapOf(Holdings[i].item) # 0 => Holdings[i].appliedValue # 0

\* a holding with a nonzero recentAveragePrice and a catalog entry of value 0
C5_Witness ==
    /\ cl_pc = "done"
    /\ \E i \in DOMAIN Holdings :
           LET it == Holdings[i].item IN
               /\ RapOf(it) # 0
               /\ ToString(it.assetId) \in DOMAIN roli_items.d
               /\ roli_items.d[ToString(it.assetId)].l[4] = PyInt(0)

RECURSIVE SumRap(_, _)
\* the sum of the recentAveragePrice of items 1..k
SumRap(items, k) ==
    IF k = 0 THEN 0 ELSE SumRap(items, k - 1) + RapOf(items[k])

RECURSIVE SumApplied(_, _)
\* the sum of the applied values of lines 1..k
SumApplied(ls, k) ==
    IF k = 0 THEN 0 ELSE SumApplied(ls, k - 1) + ls[k].value

\* items with RAP 100 and 300, and a catalog that values the first at 150
IsExample ==
    /\ cl_items = PyList(<<[assetId |-> 1, recentAveragePrice |-> PyInt(100)],
                           [assetId |-> 2, recentAveragePrice |-> PyInt(300)]>>)
    /\ roli_items = PyDict([x \in {"1"} |-> Arr(PyInt(150))])

\* a result that lists holdings
ListsHoldings == cl_pc = "done" /\ cl_result.value.text = "limiteds"

\* C6: totalRap is the sum of the items' recentAveragePrice (absent counted
\* as 0) and totalValue the sum of the per-item applied values; items with
\* RAP 100 and 300 and a catalog valuing only the first at 150 give 400 and
\* 450.
C6_TotalsAreSums ==
    ListsHoldings =>
        LET res == cl_result.value IN
            /\ Len(res.lines) = Len(cl_items.l)
            /\ res.count = Len(cl_items.l)
            /\ res.total_rap = SumRap(cl_items.l, Len(cl_items.l))
            /\ res.total_value = SumApplied(res.lines, Len(res.lines))
            /\ IsExample => res.total_rap = 400 /\ res.total_value = 450

\* the example has been composed
C6_Witness == ListsHoldings /\ IsExample /\ cl_result.value.total_value = 450

----------------------------------------------------------------------------
(* The valuation cache: roli_get_items called by concurrent coroutines *)

MaxFetches == 3     \* catalog requests the model follows

\* the catalogs the valuation service serves to the queries of this section
SmallCatalogs(S) == [{ToString(a) : a \in S} -> {Arr(PyInt(150))}]

\* a cache test that takes an empty mapping for no mapping
Cached_Truthy(cache) == Truthy(cache)

\* if ROLI_ITEMS_CACHE is not None
Cached(cache) == cache.t # "None"

\* a writer that fills the mapping that is there, entry by entry
Assign_Update(old, new) ==
    IF old.t = "dict" /\ new.t = "dict"
    THEN PyDict([k \in DOMAIN old.d \cup DOMAIN new.d |->
                    IF k \in DOMAIN new.d THEN new.d[k] ELSE old.d[k]])
    ELSE new

\* ROLI_ITEMS_CACHE = ...: the global name is bound to the new mapping
Assign(old, new) == new

\* roli_get_items is called by task t: a populated cache is returned at once,
\* otherwise the catalog request is sent and the coroutine waits for it
RGI_Call(t) ==
    /\ rgi_pc[t] = "idle"
    /\ overlapped' = (overlapped \/ \E u \in Tasks \ {t} : rgi_pc[u] = "fetch")
    /\ IF Cached(ROLI_ITEMS_CACHE)
       THEN /\ rgi_ret' = [rgi_ret EXCEPT ![t] = Return(ROLI_ITEMS_CACHE)]
            /\ UNCHANGED <<rgi_pc, fetches, ROLI_SESSION, live>>
       ELSE /\ fetches < MaxFetches
            /\ rgi_pc' = [rgi_pc EXCEPT ![t] = "fetch"]
            /\ rgi_ret' = [rgi_ret EXCEPT ![t] = [kind |-> "none"]]
            /\ fetches' = fetches + 1
            /\ ROLI_SESSION' = ensure(ROLI_SESSION)
            /\ live' = Made(live, "roli", ROLI_SESSION)
    /\ UNCHANGED <<rgi_resp, first, session, call>>
    /\ UNCHANGED <<ROLI_ITEMS_CACHE, cl_pc, cl_uid, cl_lang, cl_name, cl_items,
                   roli_items, roli_err, total_rap, total_value, lines,
                   cl_result>>
    /\ UNCHANGED collectVars
    /\ UNCHANGED <<resolverVars, facadeVars, clientVars, trackVars>>

\* the rest of RGI_Resume, the catalog request of task t being answered by r:
\* the cache is not tested again
RGI_Resumed(t, r) ==
    LET g == roli_get_items(PyNone, r) IN
        /\ rgi_resp' = [rgi_resp EXCEPT ![t] = r]
        /\ rgi_pc' = [rgi_pc EXCEPT ![t] = "idle"]
        /\ call' = TransportCall("roli_get", r, roli_get(r))
        /\ IF g.outcome.kind = "raise"
           THEN /\ rgi_ret' = [rgi_ret EXCEPT ![t] = g.outcome]
                /\ first' = IF first.kind = "none" THEN g.outcome ELSE first
                /\ UNCHANGED ROLI_ITEMS_CACHE
           ELSE LET new == Assign(ROLI_ITEMS_CACHE, g.cache) IN
                /\ ROLI_ITEMS_CACHE' = new
                /\ rgi_ret' = [rgi_ret EXCEPT ![t] = Return(new)]
                /\ first' = IF first.kind = "none" THEN Return(new) ELSE first
        /\ UNCHANGED <<fetches, overlapped, session, ROLI_SESSION, live>>
        /\ UNCHANGED <<cl_pc, cl_uid, cl_lang, cl_name, cl_items, roli_items,
                       roli_err, total_rap, total_value, lines, cl_result>>
        /\ UNCHANGED collectVars
        /\ UNCHANGED <<resolverVars, facadeVars, clientVars, trackVars>>

\* data = await roli_get(...) of task t returns or raises, up to the return
RGI_Resume(t) ==
    /\ rgi_pc[t] = "fetch"
    /\ \/ \E S \in SUBSET AssetIds : \E c \in SmallCatalogs(S) :
              RGI_Resumed(t, CatalogResponse(c))
       \/ \E r \in FailedCatalogResponses : RGI_Resumed(t, r)

RGI_CallSome == \E t \in Tasks : RGI_Call(t)

RGI_ResumeSome == \E t \in Tasks : RGI_Resume(t)

InitCache ==
    /\ session = "None"
    /\ ROLI_SESSION = "None"
    /\ live = NoSessions
    /\ call = NoCall
    /\ CollectIdle
    /\ LimitedsIdle
    /\ CacheIdle
    /\ ResolverIdle
    /\ FacadeIdle
    /\ ClientIdle
    /\ TrackIdle

NextCache == RGI_CallSome \/ RGI_ResumeSome

SpecCache == InitCache /\ [][NextCache]_vars

----------------------------------------------------------------------------
(* Claims about the valuation cache, checked under SpecCache *)

\* C11: in a sequence of non-overlapping roli_get_items calls whose first
\* fetch succeeds, exactly one request is issued in total, by the first
\* call; every later call issues none and returns the identical mapping.
C11_OneFetchThenCached ==
    (~overlapped /\ first.kind = "return") =>
        /\ fetches = 1
        /\ \A t \in Tasks : rgi_pc[t] = "idle"
        /\ ROLI_ITEMS_CACHE = first.value
        /\ \A t \in Tasks :
               rgi_ret[t].kind \in {"none", "return"}
               /\ (rgi_ret[t].kind = "return" =>
                       rgi_ret[t].value = first.value)

\* the first call has fetched a catalog with entries, and both coroutines
\* have called since and got it without a request
C11_Witness ==
    /\ ~overlapped
    /\ fetches = 1
    /\ first.kind = "return"
    /\ Truthy(first.value)
    /\ rgi_resp[1].net = "response"
    /\ rgi_resp[2] = NoRequest
    /\ \A t \in Tasks : rgi_ret[t] = Return(first.value)

\* a response that holds an item catalog
HoldsCatalog(r) ==
    /\ r.net = "response"
    /\ r.status = 200
    /\ r.body.kind = "json"
    /\ r.body.value.t = "dict"
    /\ "items" \in DOMAIN r.body.value.d

\* C12: whatever the kind of catalog fetch failure (a status other than 200,
\* a timeout, a 200 whose body is unparseable or holds no catalog), the
\* failure is never stored as the content of the cache: a populated cache
\* holds the catalog of a response that held one.
C12_FailureNeverCached ==
    ROLI_ITEMS_CACHE # PyNone =>
        \E t \in Tasks :
            /\ HoldsCatalog(rgi_resp[t])
            /\ ROLI_ITEMS_CACHE = rgi_resp[t].body.value.d.items

\* the mapping a response that raised no error stands for
MappingOf(r) ==
    IF HoldsCatalog(r) THEN r.body.value.d.items ELSE EmptyDoc

\* m is no mapping, or the mapping of one fetch response, whole
Whole(m) ==
    \/ m = PyNone
    \/ \E t \in Tasks :
           /\ rgi_resp[t].net = "response"
           /\ rgi_resp[t].status = 200
           /\ m = MappingOf(rgi_resp[t])

\* C13: under every interleaving of concurrent queries, two that start on
\* an unpopulated cache included, what a reader of the cache observes is the
\* unpopulated state or the mapping of a single fetch response, whole.
C13_CacheWholeOrUnpopulated ==
    /\ Whole(ROLI_ITEMS_CACHE)
    /\ \A t \in Tasks : rgi_ret[t].kind = "return" => Whole(rgi_ret[t].value)

\* two queries started on the unpopulated cache and fetched different
\* catalogs; the cache holds the one stored last
C13_Witness ==
    /\ overlapped
    /\ fetches = 2
    /\ \A t \in Tasks : rgi_pc[t] = "idle" /\ HoldsCatalog(rgi_resp[t])
    /\ DOMAIN MappingOf(rgi_resp[1]).d = {"1"}
    /\ DOMAIN MappingOf(rgi_resp[2]).d = {"2"}
    /\ rgi_ret[1] = Return(MappingOf(rgi_resp[1]))
    /\ ROLI_ITEMS_CACHE = MappingOf(rgi_resp[2])

----------------------------------------------------------------------------
(* The identity resolver: RobloxAPI.get_user_details_by_username *)

Usernames == {"alice", "bob"}
UserIds == {42, 43}

\* a record of the user directory
UserRecord(id, name) == [id |-> id, name |-> name]

\* what the username lookup may answer for `name`: {"data": [record]},
\* {"data": []}, a body without "data", no JSON, 404, an error, no answer
LookupResponses(name) ==
    {Response(200, JsonBody(PyDict([data |-> <<UserRecord(i, name)>>]))) :
        i \in UserIds}
    \cup {Response(200, JsonBody(PyDict([data |-> <<>>]))),
          Response(200, JsonBody(EmptyDoc)),
          Response(200, TextBody("<html>Bad Gateway</html>")),
          Response(404, JsonBody(ErrorDoc)),
          Response(500, JsonBody(ErrorDoc)),
          Timeout}

\* what the id-detail endpoint may answer for id `i`
DetailResponses(i) ==
    {Response(200, JsonBody(PyDict(UserRecord(i, "alice")))),
     Response(200, JsonBody(EmptyDoc)),
     Response(200, EmptyBody),
     Response(404, JsonBody(ErrorDoc)),
     Response(500, JsonBody(ErrorDoc)),
     Timeout}

\* the answer of the id-detail endpoint of directory dir for id i
DetailOf(dir, i) ==
    IF i \in DOMAIN dir.users THEN dir.users[i]
    ELSE Response(404, JsonBody(ErrorDoc))

\* get_user_by_username, its request having ended in `out`
get_user_by_username(out) ==
    IF out.kind = "raise" THEN out
    ELSE IF ~Truthy(out.value) \/ Len(Get(out.value.d, "data", <<>>)) = 0
    THEN Return(PyNone)
    ELSE Return(PyDict(out.value.d.data[1]))

\* get_user_by_id, its request having ended in `out`
get_user_by_id(out) == out

\* a resolver that asks for the details of a fixed id
DetailId_Fixed(base) == 42

\* base["id"]
DetailId(base) == base.d.id

\* a resolver that hands back the lookup record when there are no details
Details_OrBase(base, out) ==
    IF out.kind = "return" /\ ~Truthy(out.value) THEN Return(base) ELSE out

\* return await self.get_user_by_id(...)
Details(base, out) == out

LookupRequest(name) == [endpoint |-> "usernames/users", usernames |-> <<name>>]
DetailRequest(id) == [endpoint |-> "users", id |-> id]

\* get_user_details_by_username(username) is called, over some directory
RS_Call ==
    /\ rs_pc \in {"idle", "done", "raised"}
    /\ \E name \in Usernames :
           /\ rs_name' = name
           /\ \E l \in LookupResponses(name) :
              \E d42 \in DetailResponses(42), d43 \in DetailResponses(43) :
                  directory' = [lookup |-> l,
                                users |-> (42 :> d42) @@ (43 :> d43)]
    /\ rs_pc' = "lookup"
    /\ rs_base' = PyNone
    /\ rs_log' = <<>>
    /\ rs_result' = [kind |-> "none"]
    /\ UNCHANGED transportVars
    /\ UNCHANGED collectVars
    /\ UNCHANGED limitedsVars
    /\ UNCHANGED <<cacheVars, facadeVars, clientVars, trackVars>>

\* base = await self.get_user_by_username(username); if not base: return None
RS_Lookup ==
    /\ rs_pc = "lookup"
    /\ LET r == directory.lookup
           out == get_user_by_username(req(r))
       IN /\ session' = ensure(session)
          /\ live' = Made(live, "roblox", session)
          /\ call' = TransportCall("req", r, req(r))
          /\ rs_log' = Append(rs_log, LookupRequest(rs_name))
          /\ IF out.kind = "raise"
             THEN /\ rs_pc' = "raised"
                  /\ rs_result' = out
                  /\ UNCHANGED rs_base
             ELSE IF ~Truthy(out.value)
             THEN /\ rs_pc' = "done"
                  /\ rs_result' = Return(PyNone)
                  /\ rs_base' = out.value
             ELSE /\ rs_pc' = "detail"
                  /\ rs_base' = out.value
                  /\ UNCHANGED rs_result
    /\ UNCHANGED <<ROLI_SESSION, directory, rs_name>>
    /\ UNCHANGED collectVars
    /\ UNCHANGED limitedsVars
    /\ UNCHANGED <<cacheVars, facadeVars, clientVars, trackVars>>

\* return await self.get_user_by_id(base["id"])
RS_Detail ==
    /\ rs_pc = "detail"
    /\ LET id == DetailId(rs_base)
           r == DetailOf(directory, id)
           out == Details(rs_base, get_user_by_id(req(r)))
       IN /\ session' = ensure(session)
          /\ live' = Made(live, "roblox", session)
          /\ call' = TransportCall("req", r, req(r))
          /\ rs_log' = Append(rs_log, DetailRequest(id))
          /\ rs_result' = out
          /\ rs_pc' = IF out.kind = "raise" THEN "raised" ELSE "done"
    /\ UNCHANGED <<ROLI_SESSION, directory, rs_name, rs_base>>
    /\ UNCHANGED collectVars
    /\ UNCHANGED limitedsVars
    /\ UNCHANGED <<cacheVars, facadeVars, clientVars, trackVars>>

InitResolver ==
    /\ session = "None"
    /\ ROLI_SESSION = "None"
    /\ live = NoSessions
    /\ call = NoCall
    /\ CollectIdle
    /\ LimitedsIdle
    /\ CacheIdle
    /\ ResolverIdle
    /\ FacadeIdle
    /\ ClientIdle
    /\ TrackIdle

NextResolver == RS_Call \/ RS_Lookup \/ RS_Detail

SpecResolver == InitResolver /\ [][NextResolver]_vars

----------------------------------------------------------------------------
(* Claims about the identity resolver, checked under SpecResolver *)

\* what the username lookup of the directory returns
LookupResult == get_user_by_username(req(directory.lookup))

\* what get_user_by_id(id) returns over the directory
ByIdResult(id) == get_user_by_id(req(DetailOf(directory, id)))

\* a result that is an identity
Present(out) == out.kind = "return" /\ Truthy(out.value)

\* a result that is Absent
Absent(out) == out.kind = "return" /\ ~Truthy(out.value)

\* the call has ended
RS_Ended == rs_pc \in {"done", "raised"}

\* C14: get_user_details_by_username returns a present identity only if the
\* username lookup and then the id-detail call both returned non-absent
\* results; the id-detail call is issued only after the lookup has completed,
\* with the id the lookup returned, and not at all when the lookup is absent.
C14_BothStepsInOrder ==
    /\ rs_pc = "lookup" => rs_log = <<>>
    /\ rs_pc = "detail" =>
           /\ rs_log = <<LookupRequest(rs_name)>>
           /\ Present(LookupResult)
    /\ RS_Ended =>
           /\ Len(rs_log) \in {1, 2}
           /\ rs_log[1] = LookupRequest(rs_name)
           /\ Len(rs_log) = 2 =>
                  /\ Present(LookupResult)
                  /\ rs_log[2] = DetailRequest(LookupResult.value.d.id)
           /\ Absent(LookupResult) =>
                  /\ Len(rs_log) = 1
                  /\ rs_result = Return(PyNone)
           /\ Present(rs_result) =>
                  /\ Len(rs_log) = 2
                  /\ Present(LookupResult)
                  /\ Present(ByIdResult(LookupResult.value.d.id))

\* a resolution through both steps, and a lookup that found id 43 whose
\* details are absent
C14_Witness ==
    /\ rs_pc = "done"
    /\ Len(rs_log) = 2
    /\ rs_log[2] = DetailRequest(43)
    /\ Present(LookupResult)
    /\ Absent(ByIdResult(43))
    /\ Absent(rs_result)

\* C15: for every username whose lookup returns id N, the identity that
\* get_user_details_by_username returns has the numeric id of the identity
\* that get_user_by_id(N) returns.
C15_SameIdAsById ==
    (RS_Ended /\ Present(LookupResult)) =>
        LET byId == ByIdResult(LookupResult.value.d.id) IN
            /\ Present(rs_result) <=> Present(byId)
            /\ Present(rs_result) => rs_result.value.d.id = byId.value.d.id

\* "bob" resolved to id 43 and to the identity get_user_by_id(43) returns
C15_Witness ==
    /\ rs_pc = "done"
    /\ rs_name = "bob"
    /\ Present(LookupResult)
    /\ LookupResult.value.d.id = 43
    /\ Present(rs_result)
    /\ rs_result.value.d.id = 43
    /\ Present(ByIdResult(43))

----------------------------------------------------------------------------
(* The client methods over one request, and the command handlers *)

\* a record of a list endpoint (friends, groups, thumbnails)
DataRecord == [id |-> 7, name |-> "carol", imageUrl |-> "https://t/7.png"]

\* what a data endpoint may answer
DataResponses ==
    {Response(200, JsonBody(PyDict([data |-> <<DataRecord>>]))),
     Response(200, JsonBody(PyDict([data |-> <<>>]))),
     Response(404, JsonBody(ErrorDoc)),
     Response(500, JsonBody(ErrorDoc)),
     Timeout}

\* what the playerinfo endpoint of the valuation service may answer
PlayerDoc == PyDict([rap |-> 400, value |-> 450, playerVerified |-> TRUE])
PlayerResponses ==
    {Response(200, JsonBody(PlayerDoc)),
     Response(404, JsonBody(ErrorDoc)),
     Response(500, JsonBody(ErrorDoc)),
     Timeout}

\* data.get("data", []) if data else []
DataOrEmpty(out) ==
    IF out.kind = "raise" THEN out
    ELSE IF ~Truthy(out.value) THEN Return(PyList(<<>>))
    ELSE Return(PyList(Get(out.value.d, "data", <<>>)))

get_friends(out) == DataOrEmpty(out)
get_followers(out) == DataOrEmpty(out)
get_followings(out) == DataOrEmpty(out)
get_user_groups(out) == DataOrEmpty(out)

\* get_presence(ids) for a non-empty ids
get_presence(out) == out

\* get_user_thumbnail: a RuntimeError of the request is answered by None
get_user_thumbnail(out) ==
    IF out.kind = "raise"
    THEN IF out.exc = "RuntimeError" THEN Return(PyNone) ELSE out
    ELSE IF ~Truthy(out.value) \/ Len(Get(out.value.d, "data", <<>>)) = 0
    THEN Return(PyNone)
    ELSE Return(PyStr(out.value.d.data[1].imageUrl))

\* the result of client method `method`, its request having ended in `out`
Method(method, out) ==
    CASE method = "get_user_by_username" -> get_user_by_username(out)
      [] method = "get_user_by_id" -> get_user_by_id(out)
      [] method = "get_friends" -> get_friends(out)
      [] method = "get_followers" -> get_followers(out)
      [] method = "get_followings" -> get_followings(out)
      [] method = "get_user_groups" -> get_user_groups(out)
      [] method = "get_presence" -> get_presence(out)
      [] method = "get_user_thumbnail" -> get_user_thumbnail(out)
      [] method = "roli_get" -> out

\* One step of a handler: the client call it awaits, whether the call
\* resolves the identity or fetches data, what the handler does with an
\* exception of the call ("propagate": no try around it; "report": answers
\* with the error; "omit": except ...: pass; "warn": kept for the header)
\* and whether a falsy result ends the handler.
Step(method, role, onError, onEmpty) ==
    [method |-> method, role |-> role, onError |-> onError,
     onEmpty |-> onEmpty]

cmd_user ==
    <<Step("get_user_by_username", "identity", "report", "end"),
      Step("get_user_by_id", "identity", "report", "end"),
      Step("get_friends", "data", "propagate", "continue"),
      Step("get_followers", "data", "propagate", "continue"),
      Step("get_followings", "data", "propagate", "continue"),
      Step("roli_get", "data", "omit", "continue"),
      Step("get_user_thumbnail", "data", "propagate", "continue")>>

cmd_id ==
    <<Step("get_user_by_id", "identity", "report", "end"),
      Step("get_user_thumbnail", "data", "propagate", "continue")>>

cmd_lastonline ==
    <<Step("get_user_by_username", "identity", "propagate", "end"),
      Step("get_presence", "data", "propagate", "continue")>>

cmd_groups ==
    <<Step("get_user_by_username", "identity", "propagate", "end"),
      Step("get_user_groups", "data", "propagate", "end")>>

cmd_friends ==
    <<Step("get_user_by_username", "identity", "propagate", "end"),
      Step("get_friends", "data", "propagate", "end")>>

cmd_followers ==
    <<Step("get_user_by_username", "identity", "propagate", "end"),
      Step("get_followers", "data", "propagate", "end")>>

cmd_followings ==
    <<Step("get_user_by_username", "identity", "propagate", "end"),
      Step("get_followings", "data", "propagate", "end")>>

compose_limiteds_text ==
    <<Step("get_user_by_id", "identity", "propagate", "end"),
      Step("get_collectibles", "data", "propagate", "end"),
      Step("roli_get_items", "data", "warn", "continue")>>

cmd_limiteds ==
    <<Step("get_user_by_username", "identity", "propagate", "end")>>
    \o compose_limiteds_text

cb_roli_stats == compose_limiteds_text

cmd_rolimons ==
    <<Step("get_user_by_username", "identity", "propagate", "end"),
      Step("roli_get", "data", "report", "continue")>>

cmd_verified ==
    <<Step("get_user_by_username", "identity", "propagate", "end"),
      Step("get_user_by_id", "identity", "propagate", "end"),
      Step("roli_get", "data", "omit", "continue")>>

Handlers ==
    {"cmd_user", "cmd_id", "cmd_lastonline", "cmd_groups", "cmd_friends",
     "cmd_followers", "cmd_followings", "cmd_limiteds", "cb_roli_stats",
     "cmd_rolimons", "cmd_verified"}

\* the steps of a handler
StepsOf(op) ==
    CASE op = "cmd_user" -> cmd_user
      [] op = "cmd_id" -> cmd_id
      [] op = "cmd_lastonline" -> cmd_lastonline
      [] op = "cmd_groups" -> cmd_groups
      [] op = "cmd_friends" -> cmd_friends
      [] op = "cmd_followers" -> cmd_followers
      [] op = "cmd_followings" -> cmd_followings
      [] op = "cmd_limiteds" -> cmd_limiteds
      [] op = "cb_roli_stats" -> cb_roli_stats
      [] op = "cmd_rolimons" -> cmd_rolimons
      [] op = "cmd_verified" -> cmd_verified

\* one exchange of a client method: the response, what the transport ended
\* in, what the method ended in
Exchange(r, net, out) == [resp |-> r, net |-> net, out |-> out]

\* what roblox.get_collectibles may end in
CollectiblesOutcomes ==
    FailedCollectibles
    \cup {Return(PyList(<<>>)), Return(PyList(<<[assetId |-> 1]>>))}

\* the exchanges a step may go through, `user` being the identity resolved
\* so far
Exchanges(step, user) ==
    CASE step.method = "get_user_by_username" ->
             {Exchange(r, req(r), get_user_by_username(req(r))) :
                 r \in UNION {LookupResponses(n) : n \in Usernames}}
      [] step.method = "get_user_by_id" ->
             {Exchange(r, req(r), get_user_by_id(req(r))) :
                 r \in IF user = PyNone
                       THEN UNION {DetailResponses(i) : i \in UserIds}
                       ELSE DetailResponses(user.d.id)}
      [] step.method = "get_collectibles" ->
             {Exchange(NoRequest, o, o) : o \in CollectiblesOutcomes}
      [] step.method = "roli_get_items" ->
             {Exchange(r, roli_get(r), roli_get_items(PyNone, r).outcome) :
                 r \in {CatalogResponse(c) : c \in SmallCatalogs({1})}
                       \cup FailedCatalogResponses}
      [] step.method = "roli_get" ->
             {Exchange(r, roli_get(r), roli_get(r)) : r \in PlayerResponses}
      [] OTHER ->
             {Exchange(r, req(r), Method(step.method, req(r))) :
                 r \in DataResponses}

RoliMethods == {"roli_get", "roli_get_items"}

\* a handler that goes on without an identity
AbsentEnds_Never(step, out) == FALSE

\* if not user: return await message.answer("User not found.")
AbsentEnds(step, out) == step.role = "identity" /\ ~Truthy(out.value)

NotFound == Return([text |-> "not found"])

\* a handler is called
F_Start ==
    /\ f_pc \in {"idle", "done", "raised"}
    /\ \E op \in Handlers : f_op' = op
    /\ f_pc' = "run"
    /\ f_user' = PyNone
    /\ f_log' = <<>>
    /\ f_errors' = {}
    /\ f_fields' = {}
    /\ f_result' = [kind |-> "none"]
    /\ UNCHANGED transportVars
    /\ UNCHANGED collectVars
    /\ UNCHANGED limitedsVars
    /\ UNCHANGED <<cacheVars, resolverVars, clientVars, trackVars>>

\* the rest of F_Step for exchange x of step `step`
F_Stepped(step, x) ==
    /\ f_log' = Append(f_log, [method |-> step.method, role |-> step.role,
                               out |-> x.out])
    /\ f_errors' =
           IF x.net.kind = "raise"
           THEN f_errors \cup {[method |-> step.method, error |-> x.net]}
           ELSE f_errors
    /\ IF step.method \in RoliMethods
       THEN /\ ROLI_SESSION' = ensure(ROLI_SESSION)
            /\ live' = Made(live, "roli", ROLI_SESSION)
            /\ call' = TransportCall("roli_get", x.resp, x.net)
            /\ UNCHANGED session
       ELSE /\ session' = ensure(session)
            /\ live' = Made(live, "roblox", session)
            /\ call' = TransportCall("req", x.resp, x.net)
            /\ UNCHANGED ROLI_SESSION
    /\ IF x.out.kind = "raise"
       THEN CASE step.onError = "propagate" ->
                     /\ f_pc' = "raised"
                     /\ f_result' = x.out
                     /\ UNCHANGED <<f_user, f_fields>>
              [] step.onError = "report" ->
                     /\ f_pc' = "done"
                     /\ f_result' = Return([text |-> "error",
                                            error |-> StrOf(x.out)])
                     /\ UNCHANGED <<f_user, f_fields>>
              [] step.onError = "omit" ->
                     UNCHANGED <<f_pc, f_result, f_user, f_fields>>
              [] step.onError = "warn" ->
                     /\ f_fields' =
                            IF Truthy(StrOf(x.out))
                            THEN f_fields \cup {[field |-> "warning",
                                                 value |-> StrOf(x.out)]}
                            ELSE f_fields
                     /\ UNCHANGED <<f_pc, f_result, f_user>>
       ELSE IF AbsentEnds(step, x.out)
       THEN /\ f_pc' = "done"
            /\ f_result' = NotFound
            /\ UNCHANGED <<f_user, f_fields>>
       ELSE IF step.onEmpty = "end" /\ ~Truthy(x.out.value)
       THEN /\ f_pc' = "done"
            /\ f_result' = Return([text |-> "empty"])
            /\ UNCHANGED <<f_user, f_fields>>
       ELSE IF step.role = "identity"
       THEN /\ f_user' = x.out.value
            /\ UNCHANGED <<f_pc, f_result, f_fields>>
       ELSE /\ f_fields' = f_fields \cup {[field |-> step.method,
                                           value |-> x.out.value]}
            /\ UNCHANGED <<f_pc, f_result, f_user>>
    /\ UNCHANGED f_op
    /\ UNCHANGED collectVars
    /\ UNCHANGED limitedsVars
    /\ UNCHANGED <<cacheVars, resolverVars, clientVars, trackVars>>

\* the handler awaits its next client call and acts on what it ends in
F_Step ==
    /\ f_pc = "run"
    /\ Len(f_log) < Len(StepsOf(f_op))
    /\ LET step == StepsOf(f_op)[Len(f_log) + 1] IN
           \E x \in Exchanges(step, f_user) : F_Stepped(step, x)

\* await message.answer(text): the handler answers with its result
F_Answer ==
    /\ f_pc = "run"
    /\ Len(f_log) = Len(StepsOf(f_op))
    /\ f_pc' = "done"
    /\ f_result' = Return([text |-> "result", fields |-> f_fields])
    /\ UNCHANGED <<f_op, f_user, f_log, f_errors, f_fields>>
    /\ UNCHANGED transportVars
    /\ UNCHANGED collectVars
    /\ UNCHANGED limitedsVars
    /\ UNCHANGED <<cacheVars, resolverVars, clientVars, trackVars>>

InitFacade ==
    /\ session = "None"
    /\ ROLI_SESSION = "None"
    /\ live = NoSessions
    /\ call = NoCall
    /\ CollectIdle
    /\ LimitedsIdle
    /\ CacheIdle
    /\ ResolverIdle
    /\ FacadeIdle
    /\ ClientIdle
    /\ TrackIdle

NextFacade == F_Start \/ F_Step \/ F_Answer

SpecFacade == InitFacade /\ [][NextFacade]_vars

----------------------------------------------------------------------------
(* Claims about the handlers, checked under SpecFacade *)

\* C16: in every operation that starts from a username or an id, when the
\* identity resolution is Absent the operation ends with a not-found outcome
\* and issues no further client call.
C16_AbsentIdentityEndsOperation ==
    \A i \in 1..Len(f_log) :
        (f_log[i].role = "identity" /\ Absent(f_log[i].out)) =>
            /\ i = Len(f_log)
            /\ f_pc = "done"
            /\ f_result = NotFound

\* the profile handler found the username and no details for its id
C16_Witness ==
    /\ f_op = "cmd_user"
    /\ f_pc = "done"
    /\ Len(f_log) = 2
    /\ Present(f_log[1].out)
    /\ Absent(f_log[2].out)
    /\ f_result = NotFound

\* the handlers that enrich an identity, and their enrichment calls
Enriching == {"cmd_user", "cmd_lastonline", "cmd_verified"}
Enrichments ==
    {"get_friends", "get_followers", "get_followings", "get_presence",
     "roli_get"}

\* C17: an UpstreamError of a single enrichment sub-call (social counts,
\* presence, valuation) never aborts the operation: it still returns its
\* result, with that field omitted.
C17_EnrichmentFailureOmitsField ==
    \A e \in f_errors :
        (f_op \in Enriching /\ e.method \in Enrichments) =>
            /\ f_pc # "raised"
            /\ f_pc = "done" =>
                   /\ f_result.kind = "return"
                   /\ f_result.value.text = "result"
                   /\ \A fd \in f_result.value.fields : fd.field # e.method

\* the outcome shows the error: it is the exception, or an answer that
\* reports it or warns of it
Shown(err, res) ==
    \/ res = err
    \/ /\ res.kind = "return"
       /\ res.value.text = "error"
       /\ res.value.error = StrOf(err)
    \/ /\ res.kind = "return"
       /\ res.value.text = "result"
       /\ Truthy(StrOf(err))
       /\ [field |-> "warning", value |-> StrOf(err)] \in res.value.fields

\* C18: every UpstreamError raised by a transport call during an operation
\* is visible in the operation's outcome.
C18_NoErrorSwallowed ==
    f_pc \in {"done", "raised"} =>
        \A e \in f_errors : Shown(e.error, f_result)

----------------------------------------------------------------------------
(* The client methods, one call at a time *)

ClientMethods ==
    {"get_user_by_username", "get_user_by_id", "get_friends",
     "get_followers", "get_followings", "get_user_groups", "get_presence",
     "get_user_thumbnail", "roli_get"}

\* the result of client method `method` for response r
MethodResult(method, r) ==
    IF method \in RoliMethods THEN Method(method, roli_get(r))
    ELSE Method(method, req(r))

\* One call of a client method
ClientCall ==
    \E method \in ClientMethods, r \in Responses \cup DataResponses :
        /\ m_call' = [api |-> "client", method |-> method, resp |-> r,
                      result |-> MethodResult(method, r)]
        /\ IF method \in RoliMethods
           THEN /\ ROLI_SESSION' = ensure(ROLI_SESSION)
                /\ live' = Made(live, "roli", ROLI_SESSION)
                /\ call' = TransportCall("roli_get", r, roli_get(r))
                /\ UNCHANGED session
           ELSE /\ session' = ensure(session)
                /\ live' = Made(live, "roblox", session)
                /\ call' = TransportCall("req", r, req(r))
                /\ UNCHANGED ROLI_SESSION
        /\ UNCHANGED collectVars
        /\ UNCHANGED limitedsVars
        /\ UNCHANGED <<cacheVars, resolverVars, facadeVars, trackVars>>

InitClient ==
    /\ session = "None"
    /\ ROLI_SESSION = "None"
    /\ live = NoSessions
    /\ call = NoCall
    /\ CollectIdle
    /\ LimitedsIdle
    /\ CacheIdle
    /\ ResolverIdle
    /\ FacadeIdle
    /\ ClientIdle
    /\ TrackIdle

NextClient == ClientCall

SpecClient == InitClient /\ [][NextClient]_vars

----------------------------------------------------------------------------
(* Claims about the client methods and the requests of the transport *)

\* C19: for every client method, the result for an upstream answer of 404
\* (Absent) differs from the result for an answer of any other status >= 400
\* (UpstreamError).
C19_AbsentDistinctFromError ==
    (/\ m_call.api = "client"
     /\ m_call.resp.net = "response"
     /\ m_call.resp.status >= 400
     /\ m_call.resp.status # 404) =>
        \A b \in Bodies :
            MethodResult(m_call.method, Response(404, b)) # m_call.result

----------------------------------------------------------------------------
(* Claims about timeouts and unparseable bodies, checked under             *)
(* SpecTransport                                                           *)

TimedOut(c) == c.api # "none" /\ c.resp.net = "timeout"

\* C21: a request that exceeds the per-request timeout ends in the same kind
\* of error the transport raises for a status >= 400 (the RuntimeError of
\* req and roli_get), so that a caller handling that error handles the
\* timeout as well.
C21_TimeoutIsUpstreamError ==
    TimedOut(call) =>
        /\ call.outcome.kind = "raise"
        /\ call.outcome.exc = RaiseHTTP("HTTP", 500, PyNone).exc

NotJson(c) ==
    /\ c.api # "none"
    /\ c.resp.net = "response"
    /\ c.resp.body.kind = "text"

\* What the status alone decides when the body counts as empty: Absent for
\* 404, an error carrying the status for any other status >= 400, and an
\* empty result otherwise.
ByStatusAlone(c) ==
    IF c.resp.status = 404 THEN c.outcome = Return(PyNone)
    ELSE IF c.resp.status >= 400
         THEN /\ c.outcome.kind = "raise"
              /\ c.outcome.exc = "RuntimeError"
              /\ c.outcome.status = c.resp.status
              /\ c.outcome.data = PyNone
         ELSE c.outcome = Return(PyNone)

\* C22: a response whose body is not valid JSON never makes a parse failure
\* leave the transport (req or roli_get): the body counts as empty and the
\* outcome is decided by the status alone, an empty result for 2xx, Absent
\* for 404 and an error for any other status >= 400.
C22_NonJsonDecidedByStatus == NotJson(call) => ByStatusAlone(call)

----------------------------------------------------------------------------
(* Claims about the merge, negative ids and a failed catalog fetch,        *)
(* checked under SpecLimiteds                                              *)

\* C23: the valuation merge is total: for every item (RAP an integer >= 0
\* or absent) and every state of the catalog (no entry, value 0, value
\* "unknown", a positive value) the loop yields an integer applied value
\* >= 0 and never ends in an error.
C23_MergeIsTotal ==
    /\ cl_pc = "raised" => cl_result.exc # "TypeError"
    /\ cl_pc \in {"loop", "done"} =>
           \A i \in 1..Len(lines) : lines[i].value \in Nat

\* C24: compose_limiteds_text called with a negative id ends with a
\* validation error, without the request for that id being issued: the call
\* never goes past its first step in another way.
C24_NegativeIdIsRejected ==
    (cl_uid < 0 /\ cl_pc # "get_user") =>
        /\ cl_pc = "raised"
        /\ cl_result.exc = "ValidationError"

\* the catalog request of the running call was answered without a catalog
FetchFailed == call.api = "roli_get" /\ call.resp \in FailedCatalogResponses

\* C27: when the catalog fetch fails, compose_limiteds_text still returns
\* the full list of holdings: every applied value is the RAP of its item,
\* the total value is the total RAP, and the result carries the error
\* message of the valuation service.
C27_FailedFetchDegradesToRap ==
    (ListsHoldings /\ FetchFailed) =>
        LET res == cl_result.value IN
            /\ Len(res.lines) = Len(cl_items.l)
            /\ \A i \in 1..Len(res.lines) :
                   res.lines[i].value = res.lines[i].rap
            /\ res.total_value = res.total_rap
            /\ Truthy(res.warning)

----------------------------------------------------------------------------
(* Claim about later writes of the cache, checked under SpecCache *)

\* the cache holds a catalog with at least one entry
Populated(cache) == Cached(cache) /\ Truthy(cache)

\* C26: once the cache holds a populated catalog no later event changes it:
\* under every interleaving of concurrent queries, a second fetch that was
\* in flight when the first completed and that ends in a failure or in an
\* answer without a catalog included, the cached mapping stays the one
\* first stored.
C26_PopulatedCacheNeverChanges ==
    [][Populated(ROLI_ITEMS_CACHE) => ROLI_ITEMS_CACHE' = ROLI_ITEMS_CACHE]_vars

----------------------------------------------------------------------------
(* Claim about the sessions, checked under SpecTransport *)

\* C25: after any sequence of requests at most one session has been
\* constructed and is open for the Roblox APIs, and at most one, a session
\* of its own, for the valuation service: ensure and roli_ensure construct a
\* session only when their holder has none (or a closed one) and return the
\* one there is otherwise.
C25_OneSessionPerHolder ==
    /\ live.roblox <= 1
    /\ live.roli <= 1
    /\ (session = "open") <=> (live.roblox = 1)
    /\ (ROLI_SESSION = "open") <=> (live.roli = 1)
    /\ call.api = "req" => session = "open"
    /\ call.api = "roli_get" => ROLI_SESSION = "open"

C25_Witness ==
    /\ call.api = "req"
    /\ session = "open"
    /\ ROLI_SESSION = "open"
    /\ live = [roblox |-> 1, roli |-> 1]

----------------------------------------------------------------------------
(* The command wrapper, the usage counters and the language of a user *)

MaxCommands == 3    \* wrapper invocations the model follows

DEFAULT_LANG == "en"

ChatIds == {10, 20}
SenderIds == {101, 102}

\* from_user.language_code: absent, or an IETF language tag
LanguageCodes == {PyNone, PyStr("RU"), PyStr("en")}

\* message.from_user / cb.from_user: None, or a user
NoUser == [t |-> "None"]
User(id, code) == [t |-> "user", id |-> id, language_code |-> code]
FromUsers ==
    {NoUser} \cup {User(id, c) : id \in SenderIds, c \in LanguageCodes}

\* command.args: None, or the text after the command
CommandArgs == {PyNone, PyStr(" RU "), PyStr("de")}

\* s.strip().lower() on the strings of the model
StripLower(s) ==
    CASE s = "RU" -> "ru"
      [] s = " RU " -> "ru"
      [] OTHER -> s

\* s.startswith("ru") on the strings of the model
StartsWithRu(s) == s \in {"ru", "ru-ru"}

detect_language(code) ==
    IF ~Truthy(code) THEN DEFAULT_LANG
    ELSE IF StartsWithRu(StripLower(code.s)) THEN "ru"
    ELSE "en"

\* a test that finds no entry for any user
HasEntry_Never(langs, uid) == FALSE

\* if uid in USER_LANG
HasEntry(langs, uid) == uid \in DOMAIN langs

\* USER_LANG[uid] = lang
Put(langs, uid, lang) ==
    [u \in DOMAIN langs \cup {uid} |-> IF u = uid THEN lang ELSE langs[u]]

\* get_lang(message) with USER_LANG = langs: the language returned and
\* USER_LANG afterwards
get_lang(langs, from_user) ==
    IF from_user.t = "None" THEN [lang |-> DEFAULT_LANG, langs |-> langs]
    ELSE IF HasEntry(langs, from_user.id)
    THEN [lang |-> langs[from_user.id], langs |-> langs]
    ELSE LET lang == detect_language(from_user.language_code) IN
         [lang |-> lang, langs |-> Put(langs, from_user.id, lang)]

\* get_lang_cb(cb): the statements of get_lang, on cb.from_user
get_lang_cb(langs, from_user) == get_lang(langs, from_user)

\* the handlers registered through track_command, by what they declare
TrackedHandlers == {"cmd_start", "cmd_botstats", "cmd_user", "cmd_language"}
Declares(h) ==
    IF h \in {"cmd_start", "cmd_botstats"} THEN {"message"}
    ELSE {"message", "command"}

\* return await func(message): the arguments the wrapper hands on
Forwarded == {"message"}

\* what a handler call changes: USER_LANG, the user's own choice, and how
\* it ends; `lang` is what get_lang returned
Ended(kind, langs, chosen, lang) ==
    [kind |-> kind, langs |-> langs, chosen |-> chosen, lang |-> lang]

\* the body of cmd_language, up to the answer
cmd_language_body(langs, from_user, args) ==
    LET g == get_lang(langs, from_user)
        arg == IF Truthy(args) THEN StripLower(args.s) ELSE ""
    IN IF from_user.t = "None" THEN Ended("return", g.langs, "none", g.lang)
       ELSE IF arg \in {"en", "ru"}
       THEN Ended("return", Put(g.langs, from_user.id, arg), arg, g.lang)
       ELSE Ended("return", g.langs, "none", g.lang)

\* func(...) called with the arguments `given`: Python raises TypeError when
\* a declared parameter gets no argument; otherwise the body runs, which
\* begins with lang = get_lang(message)
Invoke(h, given, langs, from_user, args) ==
    IF ~(Declares(h) \subseteq given)
    THEN Ended("TypeError", langs, "none", "none")
    ELSE IF h = "cmd_language" THEN cmd_language_body(langs, from_user, args)
    ELSE LET g == get_lang(langs, from_user) IN
         Ended("return", g.langs, "none", g.lang)

\* a wrapper that records a sender for every message
AddSender_Unguarded(ids, from_user) ==
    ids \cup {IF from_user.t = "None" THEN 0 ELSE from_user.id}

\* if message.from_user: USER_IDS.add(message.from_user.id)
AddSender(ids, from_user) ==
    IF from_user.t = "None" THEN ids ELSE ids \cup {from_user.id}

\* the record of one handler invocation
Invocation(h, given, from_user, was, e) ==
    [handler |-> h, given |-> given, from_user |-> from_user, was |-> was,
     kind |-> e.kind, lang |-> e.lang]

\* USER_LANG[uid] before the invocation, "none" without sender or entry
EntryOf(langs, from_user) ==
    IF from_user.t = "user" /\ from_user.id \in DOMAIN langs
    THEN langs[from_user.id]
    ELSE "none"

\* the user's own choice is recorded
Chosen(ex, from_user, e) ==
    IF e.chosen = "none" THEN ex ELSE Put(ex, from_user.id, e.chosen)

\* the wrapper of track_command is called by the dispatcher for handler h
TC_Wrapper ==
    \E h \in TrackedHandlers, chat \in ChatIds, from_user \in FromUsers,
       args \in CommandArgs :
        LET e == Invoke(h, Forwarded, USER_LANG, from_user, args) IN
            /\ TOTAL_COMMANDS < MaxCommands
            /\ TOTAL_COMMANDS' = TOTAL_COMMANDS + 1
            /\ CHAT_IDS' = CHAT_IDS \cup {chat}
            /\ USER_IDS' = AddSender(USER_IDS, from_user)
            /\ USER_LANG' = e.langs
            /\ explicit' = Chosen(explicit, from_user, e)
            /\ tc_last' = Invocation(h, Forwarded, from_user,
                                     EntryOf(USER_LANG, from_user), e)
            /\ tc_seen' =
                   [calls |-> tc_seen.calls + 1,
                    chats |-> tc_seen.chats \cup {chat},
                    senders |-> tc_seen.senders \cup
                        (IF from_user.t = "user" THEN {from_user.id} ELSE {})]
            /\ UNCHANGED transportVars
            /\ UNCHANGED collectVars
            /\ UNCHANGED limitedsVars
            /\ UNCHANGED <<cacheVars, resolverVars, facadeVars, clientVars>>

\* the language codes a set_lang callback may carry
SetLangCodes == {"en", "ru", "de"}

\* cb_set_lang is called with the data "set_lang:<code>"
CB_SetLang ==
    \E code \in SetLangCodes, from_user \in FromUsers :
        LET ok == code \in {"en", "ru"} /\ from_user.t = "user"
            e == IF ok
                 THEN Ended("return", Put(USER_LANG, from_user.id, code),
                            code, "none")
                 ELSE Ended("return", USER_LANG, "none", "none")
        IN /\ USER_LANG' = e.langs
           /\ explicit' = Chosen(explicit, from_user, e)
           /\ tc_last' = Invocation("cb_set_lang", {"cb"}, from_user,
                                    "none", e)
           /\ UNCHANGED <<TOTAL_COMMANDS, CHAT_IDS, USER_IDS, tc_seen>>
           /\ UNCHANGED transportVars
           /\ UNCHANGED collectVars
           /\ UNCHANGED limitedsVars
           /\ UNCHANGED <<cacheVars, resolverVars, facadeVars, clientVars>>

\* cb_help_open is called: lang = get_lang_cb(cb), then the guide is shown
CB_HelpOpen ==
    \E from_user \in FromUsers :
        LET g == get_lang_cb(USER_LANG, from_user) IN
            /\ USER_LANG' = g.langs
            /\ tc_last' = Invocation("cb_help_open", {"cb"}, from_user,
                                     EntryOf(USER_LANG, from_user),
                                     Ended("return", g.langs, "none", g.lang))
            /\ UNCHANGED <<TOTAL_COMMANDS, CHAT_IDS, USER_IDS, tc_seen,
                           explicit>>
            /\ UNCHANGED transportVars
            /\ UNCHANGED collectVars
            /\ UNCHANGED limitedsVars
            /\ UNCHANGED <<cacheVars, resolverVars, facadeVars, clientVars>>

InitTrack ==
    /\ session = "None"
    /\ ROLI_SESSION = "None"
    /\ live = NoSessions
    /\ call = NoCall
    /\ CollectIdle
    /\ LimitedsIdle
    /\ CacheIdle
    /\ ResolverIdle
    /\ FacadeIdle
    /\ ClientIdle
    /\ TrackIdle

NextTrack == TC_Wrapper \/ CB_SetLang \/ CB_HelpOpen

SpecTrack == InitTrack /\ [][NextTrack]_vars

----------------------------------------------------------------------------
(* Claims about the wrapper, the language and the counters, checked under  *)
(* SpecTrack                                                               *)

\* C28: every handler registered through track_command that declares a
\* command argument is invoked with both the message and the parsed command
\* object, so that its call does not fail for a missing argument.
C28_CommandHandlersGetCommand ==
    (tc_last.handler \in TrackedHandlers
        /\ "command" \in Declares(tc_last.handler)) =>
        /\ "command" \in tc_last.given
        /\ tc_last.kind # "TypeError"

\* C29: once a user has chosen a language, USER_LANG holds that language for
\* the user and every later get_lang / get_lang_cb for the user returns it,
\* whatever language_code the message carries; a call that finds an entry
\* returns the entry and detects nothing.
C29_ChosenLanguageSticks ==
    /\ \A u \in DOMAIN explicit :
           u \in DOMAIN USER_LANG /\ USER_LANG[u] = explicit[u]
    /\ (tc_last.handler # "none" /\ tc_last.lang # "none"
            /\ tc_last.was # "none") =>
           /\ tc_last.lang = tc_last.was
           /\ USER_LANG[tc_last.from_user.id] = tc_last.was

C29_Witness ==
    /\ 101 \in DOMAIN explicit
    /\ explicit[101] = "en"
    /\ tc_last.handler = "cmd_start"
    /\ tc_last.from_user = User(101, PyStr("RU"))
    /\ tc_last.lang = "en"

\* C30: TOTAL_COMMANDS is the number of invocations made through the
\* wrapper, those whose handler then fails included, and CHAT_IDS and
\* USER_IDS hold exactly the chat ids and the ids of the senders present in
\* those invocations; the counter never decreases and the sets never shrink.
C30_CountersMatchInvocations ==
    /\ [](/\ TOTAL_COMMANDS = tc_seen.calls
          /\ CHAT_IDS = tc_seen.chats
          /\ USER_IDS = tc_seen.senders)
    /\ [][/\ TOTAL_COMMANDS' >= TOTAL_COMMANDS
          /\ CHAT_IDS \subseteq CHAT_IDS'
          /\ USER_IDS \subseteq USER_IDS']_vars

C30_Witness ==
    /\ TOTAL_COMMANDS = 2
    /\ tc_last.handler = "cmd_user"
    /\ tc_last.kind = "TypeError"
    /\ tc_last.from_user = NoUser
    /\ CHAT_IDS = ChatIds
    /\ USER_IDS = {101}

====
